---------------------------- MODULE Spec2Model ----------------------------
(***************************************************************************)
(* A model of src/src/main.rs: the lexer (lex, lex_token), the parser      *)
(* (parse) and the stack machine (compute) of the `lang` interpreter.      *)
(*                                                                         *)
(* Source text is a sequence of one-character strings.  Indices stored in  *)
(* operations and in the two index stacks are the 0-based usize values of  *)
(* the source; At and Set translate them to TLA+'s 1-based sequences.      *)
(* lex is applied as a whole (it is a pure fold over the characters);      *)
(* parse advances one token per step and compute one instruction per step. *)
(***************************************************************************)
EXTENDS Integers, Sequences, FiniteSets, TLC

VARIABLES
    input,      \* the source text handed to lex (main.rs:274)
    pc,         \* where main is: "lex", "parse", "compute", "returned",
                \* "lex_panic", "parse_panic" or "compute_panic"
    tokens,     \* lex's result (main.rs:275)
    tpos,       \* parse: 1-based position of the next token of the for loop
    res,        \* parse: the operations emitted so far; compute's `ops`
    pidx,       \* parse: `idx`, the emit counter (main.rs:80)
    pstack,     \* parse: `stack`, the pending-block stack (main.rs:101)
    stack,      \* compute: the operand stack (main.rs:146)
    idx,        \* compute: the instruction pointer (main.rs:147)
    curr_loop,  \* compute: the loop-marker stack (main.rs:148)
    executed    \* history: the instruction pointers compute has executed

vars == <<input, pc, tokens, tpos, res, pidx, pstack, stack, idx, curr_loop, executed>>

----------------------------------------------------------------------------
(* Bounds of the model *)

\* longest source text enumerated character by character
MaxChars == 4
\* longest program enumerated word by word over CoreWords
MaxToks == 4
\* longest sequence of block delimiters enumerated
MaxBraces == 7
\* largest magnitude of the literals of the arithmetic programs
MaxLit == 2
\* longest straight-line body of the block programs
MaxBody == 2
\* instructions compute may execute before the model stops following it
MaxSteps == 16

----------------------------------------------------------------------------
(* Sequences with 0-based indices *)

At(s, i) == s[i + 1]
Set(s, i, v) == [s EXCEPT ![i + 1] = v]
Last(s) == s[Len(s)]
Front(s) == SubSeq(s, 1, Len(s) - 1)
Abs(x) == IF x < 0 THEN -x ELSE x

RECURSIVE Flatten(_)
Flatten(ss) == IF ss = <<>> THEN <<>> ELSE Head(ss) \o Flatten(Tail(ss))

----------------------------------------------------------------------------
(* Token, Intrinsic, Op *)

Word(w) == [kind |-> "Word", text |-> w, value |-> 0]
Number(n) == [kind |-> "Number", text |-> <<>>, value |-> n]

BinaryIntrinsics == {"Add", "Sub", "Mult", "Div", "Mod", "LT", "GT", "LE", "GE", "EQ", "NE"}
Intrinsic == BinaryIntrinsics \cup {"Dup", "Drop"}

Push(n) == [op |-> "Push", i |-> "", a |-> n, b |-> 0]
OpInt(i) == [op |-> "Int", i |-> i, a |-> 0, b |-> 0]
Cond == [op |-> "Cond", i |-> "", a |-> 0, b |-> 0]
Zaloop == [op |-> "Zaloop", i |-> "", a |-> 0, b |-> 0]
BStart(el, en) == [op |-> "BStart", i |-> "", a |-> el, b |-> en]
BElse(st, en) == [op |-> "BElse", i |-> "", a |-> st, b |-> en]
BEnd(st) == [op |-> "BEnd", i |-> "", a |-> st, b |-> 0]

----------------------------------------------------------------------------
(* lex_token and lex *)

\* char::is_whitespace, restricted to the characters the model uses
Whitespace == {" ", "\n", "\t"}
IsWhitespace(c) == c \in Whitespace

\* ASCII digits, and the decimal digits \d matches: the regex is Unicode-aware, so
\* \d is every character of category Nd; u0663 stands for one that is not ASCII
\* (ARABIC-INDIC DIGIT THREE)
Digits == {"0", "1", "2", "3", "4", "5", "6", "7", "8", "9"}
DecimalDigits == Digits \cup {"u0663"}
DigitVal(c) ==
    CASE c = "0" -> 0 [] c = "1" -> 1 [] c = "2" -> 2 [] c = "3" -> 3 [] c = "4" -> 4
      [] c = "5" -> 5 [] c = "6" -> 6 [] c = "7" -> 7 [] c = "8" -> 8 [] c = "9" -> 9

\* the {1,10} of the regex
MaxDigits == 10

\* Regex ^-?\d{1,10}$
IsIntLiteral(tok) ==
    LET body == IF tok # <<>> /\ Head(tok) = "-" THEN Tail(tok) ELSE tok
    IN  /\ Len(body) >= 1
        /\ Len(body) <= MaxDigits
        /\ \A k \in 1..Len(body) : body[k] \in DecimalDigits

RECURSIVE DecimalValue(_)
DecimalValue(s) == IF s = <<>> THEN 0 ELSE 10 * DecimalValue(Front(s)) + DigitVal(Last(s))

\* str::parse::<i64> on a string that matched the regex: Err when a digit is not
\* ASCII (ten digits never overflow an i64)
ParseI64Fails(tok) == \E k \in 1..Len(tok) : tok[k] \in DecimalDigits \ Digits
ParseI64(tok) == IF Head(tok) = "-" THEN -DecimalValue(Tail(tok)) ELSE DecimalValue(tok)

\* what lex_token yields when its unwrap panics
LexTokenPanic == [kind |-> "panic", text |-> <<>>, value |-> 0]

lex_token(tok) ==
    IF IsIntLiteral(tok)
    THEN IF ParseI64Fails(tok) THEN LexTokenPanic ELSE Number(ParseI64(tok))
    ELSE Word(tok)

\* res.push_back(lex_token(&current_token)); the state of lex is
\* [res, current_token, panicked]
LexPush(st) ==
    LET t == lex_token(st.current_token)
    IN  IF t = LexTokenPanic THEN [st EXCEPT !.panicked = TRUE]
        ELSE [st EXCEPT !.res = Append(st.res, t)]

\* the closure of for_each: one character
LexChar(st, c) ==
    IF ~IsWhitespace(c)
    THEN [st EXCEPT !.current_token = Append(@, c)]
    ELSE [LexPush(st) EXCEPT !.current_token = <<>>]

RECURSIVE LexChars(_, _)
LexChars(st, chars) ==
    IF chars = <<>> \/ st.panicked THEN st
    ELSE LexChars(LexChar(st, Head(chars)), Tail(chars))

\* lex without the flush after the loop
LexNoFlush(st) == st

\* the flush after the loop
LexFlush(st) ==
    IF ~st.panicked /\ st.current_token # <<>> THEN LexPush(st) ELSE st

lex(text) ==
    LexFlush(LexChars([res |-> <<>>, current_token |-> <<>>, panicked |-> FALSE], text))

----------------------------------------------------------------------------
(* parse *)

\* the HashMap `ops`: lexeme -> Op
Lexemes ==
    { <<"+">>, <<"-">>, <<"*">>, <<"/">>, <<"%">>, <<"<">>, <<">">>, <<"<", "=">>,
      <<">", "=">>, <<"=", "=">>, <<"!", "=">>, <<":">>, <<";">>, <<"?">>, <<"@">>,
      <<"{">>, <<"}", "{">>, <<"}">> }

OpsGet(w) ==
    CASE w = <<"+">> -> OpInt("Add")
      [] w = <<"-">> -> OpInt("Sub")
      [] w = <<"*">> -> OpInt("Mult")
      [] w = <<"/">> -> OpInt("Div")
      [] w = <<"%">> -> OpInt("Mod")
      [] w = <<"<">> -> OpInt("LT")
      [] w = <<">">> -> OpInt("GT")
      [] w = <<"<", "=">> -> OpInt("LE")
      [] w = <<">", "=">> -> OpInt("GE")
      [] w = <<"=", "=">> -> OpInt("EQ")
      [] w = <<"!", "=">> -> OpInt("NE")
      [] w = <<":">> -> OpInt("Dup")
      [] w = <<";">> -> OpInt("Drop")
      [] w = <<"?">> -> Cond
      [] w = <<"@">> -> Zaloop
      [] w = <<"{">> -> BStart(0, 0)
      [] w = <<"}", "{">> -> BElse(0, 0)
      [] w = <<"}">> -> BEnd(0)

\* The state of parse's loop is [res, idx, stack, panicked]; panicked records
\* that an unwrap failed.
ParsePanic(st) == [st EXCEPT !.panicked = TRUE]

\* Op::BStart arm
ParseBStart(st, op) ==
    [st EXCEPT !.stack = Append(st.stack, st.idx), !.res = Append(st.res, op)]

\* a BElse arm that forgets stack.push_back(idx)
ParseBElseDropsEntry(st) ==
    IF st.stack = <<>> THEN ParsePanic(st)
    ELSE LET bi == Last(st.stack)
             r1 == Set(st.res, bi, BStart(st.idx, 0))
         IN  [st EXCEPT !.stack = Front(st.stack),
                        !.res = Append(r1, BElse(bi, 0))]

\* Op::BElse arm
ParseBElse(st) ==
    IF st.stack = <<>> THEN ParsePanic(st)
    ELSE LET bi == Last(st.stack)
             r1 == Set(st.res, bi, BStart(st.idx, 0))
         IN  [st EXCEPT !.stack = Append(Front(st.stack), st.idx),
                        !.res = Append(r1, BElse(bi, 0))]

\* the BEnd arm with `if let Some(bi) = stack.pop_back()` in place of unwrap
ParseBEndLenient(st) ==
    IF st.stack = <<>> THEN st
    ELSE LET bi == Last(st.stack)
             o  == At(st.res, bi).a
             r1 == IF At(st.res, bi).op = "BElse"
                   THEN Append(Set(Set(st.res, bi, BElse(o, st.idx)), o, BStart(bi, st.idx)),
                               BEnd(bi))
                   ELSE st.res
             r2 == IF At(r1, bi).op = "BStart"
                   THEN Append(Set(r1, bi, BStart(bi, st.idx)), BEnd(bi))
                   ELSE r1
         IN  [st EXCEPT !.stack = Front(st.stack), !.res = r2]

\* the BEnd arm emitting BEnd(o), the block head, where the block has an else
ParseBEndBackToHead(st) ==
    IF st.stack = <<>> THEN ParsePanic(st)
    ELSE LET bi == Last(st.stack)
             o  == At(st.res, bi).a
             r1 == IF At(st.res, bi).op = "BElse"
                   THEN Append(Set(Set(st.res, bi, BElse(o, st.idx)), o, BStart(bi, st.idx)),
                               BEnd(o))
                   ELSE st.res
             r2 == IF At(r1, bi).op = "BStart"
                   THEN Append(Set(r1, bi, BStart(bi, st.idx)), BEnd(bi))
                   ELSE r1
         IN  [st EXCEPT !.stack = Front(st.stack), !.res = r2]

\* the BEnd arm without `res[bi] = Op::BElse(o, idx)`: the BElse keeps end-index 0
ParseBEndUnpatchedElse(st) ==
    IF st.stack = <<>> THEN ParsePanic(st)
    ELSE LET bi == Last(st.stack)
             o  == At(st.res, bi).a
             r1 == IF At(st.res, bi).op = "BElse"
                   THEN Append(Set(st.res, o, BStart(bi, st.idx)), BEnd(bi))
                   ELSE st.res
             r2 == IF At(r1, bi).op = "BStart"
                   THEN Append(Set(r1, bi, BStart(bi, st.idx)), BEnd(bi))
                   ELSE r1
         IN  [st EXCEPT !.stack = Front(st.stack), !.res = r2]

\* Op::BEnd arm: the two `if let` in sequence
ParseBEnd(st) ==
    IF st.stack = <<>> THEN ParsePanic(st)
    ELSE LET bi == Last(st.stack)
             o  == At(st.res, bi).a
             r1 == IF At(st.res, bi).op = "BElse"
                   THEN Append(Set(Set(st.res, bi, BElse(o, st.idx)), o, BStart(bi, st.idx)),
                               BEnd(bi))
                   ELSE st.res
             r2 == IF At(r1, bi).op = "BStart"
                   THEN Append(Set(r1, bi, BStart(bi, st.idx)), BEnd(bi))
                   ELSE r1
         IN  [st EXCEPT !.stack = Front(st.stack), !.res = r2]

\* Token::Word arm after the is_empty test
ParseWord(st, w) ==
    IF w \notin Lexemes THEN ParsePanic(st)
    ELSE LET op == OpsGet(w)
             s1 == CASE op.op = "BStart" -> ParseBStart(st, op)
                     [] op.op = "BElse" -> ParseBElse(st)
                     [] op.op = "BEnd" -> ParseBEnd(st)
                     [] OTHER -> [st EXCEPT !.res = Append(st.res, op)]
         IN  IF s1.panicked THEN s1 ELSE [s1 EXCEPT !.idx = s1.idx + 1]

\* an iteration that counts an empty word before skipping it
ParseTokenCountsEmpty(st, tok) ==
    IF tok.kind = "Number"
    THEN [st EXCEPT !.res = Append(st.res, Push(tok.value)), !.idx = st.idx + 1]
    ELSE IF tok.text = <<>> THEN [st EXCEPT !.idx = st.idx + 1]
         ELSE ParseWord(st, tok.text)

\* one iteration of `for tok in input.iter()`
parse_token(st, tok) ==
    IF tok.kind = "Number"
    THEN [st EXCEPT !.res = Append(st.res, Push(tok.value)), !.idx = st.idx + 1]
    ELSE IF tok.text = <<>> THEN st ELSE ParseWord(st, tok.text)

----------------------------------------------------------------------------
(* compute *)

\* Rust's / and % on i64: truncation toward zero (b # 0)
TruncDiv(a, b) ==
    LET q == Abs(a) \div Abs(b) IN IF (a < 0) = (b < 0) THEN q ELSE -q
TruncRem(a, b) == a - b * TruncDiv(a, b)

Bool(p) == IF p THEN 1 ELSE 0

\* pop2: a is popped first (the top), b second
Pop2(s) == [a |-> s[Len(s)], b |-> s[Len(s) - 1], rest |-> SubSeq(s, 1, Len(s) - 2)]

\* the value each binary arm pushes, from (a, b) = pop2()
BinaryValue(i, a, b) ==
    CASE i = "Add" -> a + b
      [] i = "Mult" -> a * b
      [] i = "Sub" -> a - b
      [] i = "Div" -> TruncDiv(a, b)
      [] i = "Mod" -> TruncRem(a, b)
      [] i = "LT" -> Bool(a < b)
      [] i = "GT" -> Bool(a > b)
      [] i = "LE" -> Bool(a <= b)
      [] i = "GE" -> Bool(a >= b)
      [] i = "EQ" -> Bool(a = b)
      [] i = "NE" -> Bool(a # b)

\* The state of compute's loop: stack, idx, curr_loop, and whether it panicked.
ComputePanic(st) == [st EXCEPT !.panicked = TRUE]

\* Op::OpInt(i), binary arms: pop2 panics below two values, / and % on a zero b
ComputeBinary(st, i) ==
    IF Len(st.stack) < 2 THEN ComputePanic(st)
    ELSE LET p == Pop2(st.stack)
         IN  IF i \in {"Div", "Mod"} /\ p.b = 0 THEN ComputePanic(st)
             ELSE [st EXCEPT !.stack = Append(p.rest, BinaryValue(i, p.a, p.b))]

\* Dup written with pop_back in place of back: the copy replaces the original
ComputeDupPopping(st) ==
    IF st.stack = <<>> THEN ComputePanic(st)
    ELSE [st EXCEPT !.stack = Append(Front(st.stack), Last(st.stack))]

\* Intrinsic::Dup
ComputeDup(st) ==
    IF st.stack = <<>> THEN ComputePanic(st)
    ELSE [st EXCEPT !.stack = Append(st.stack, Last(st.stack))]

\* Drop without the length test: pop_back on an empty VecDeque returns None
ComputeDropUnchecked(st) ==
    [st EXCEPT !.stack = IF @ = <<>> THEN @ ELSE Front(@)]

\* Intrinsic::Drop
ComputeDrop(st) ==
    IF Len(st.stack) < 1 THEN ComputePanic(st)
    ELSE [st EXCEPT !.stack = Front(st.stack)]

\* Op::Cond, and the first half of Op::Zaloop
Normalize(st) ==
    IF st.stack = <<>> THEN ComputePanic(st)
    ELSE [st EXCEPT !.stack = Append(Front(st.stack), IF Last(st.stack) # 0 THEN 1 ELSE 0)]

\* BStart that always jumps to el on a zero condition, without the el == idx test
ComputeBStartToElse(st, el, en) ==
    IF st.stack = <<>> THEN ComputePanic(st)
    ELSE LET cond == Last(st.stack)
             s1 == [st EXCEPT !.stack = Front(st.stack)]
         IN  IF cond = 0
             THEN [s1 EXCEPT !.idx = el,
                             !.curr_loop = IF @ = <<>> THEN @ ELSE Front(@)]
             ELSE s1

\* Op::BStart(el, en); VecDeque::pop_back on an empty curr_loop is a no-op
\* a BStart arm that jumps on zero but leaves curr_loop alone
ComputeBStartKeepsMark(st, el, en) ==
    IF st.stack = <<>> THEN ComputePanic(st)
    ELSE LET cond == Last(st.stack)
             s1 == [st EXCEPT !.stack = Front(st.stack)]
         IN  IF cond = 0
             THEN [s1 EXCEPT !.idx = IF el = st.idx THEN en ELSE el]
             ELSE s1
ComputeBStart(st, el, en) ==
    IF st.stack = <<>> THEN ComputePanic(st)
    ELSE LET cond == Last(st.stack)
             s1 == [st EXCEPT !.stack = Front(st.stack)]
         IN  IF cond = 0
             THEN [s1 EXCEPT !.idx = IF el = st.idx THEN en ELSE el,
                             !.curr_loop = IF @ = <<>> THEN @ ELSE Front(@)]
             ELSE s1

\* BElse that does not jump: the else body follows the then body
ComputeBElseFallsThrough(st, en) == st

\* Op::BElse(_, en)
ComputeBElse(st, en) == [st EXCEPT !.idx = en]

\* Op::BEnd(_): idx = lidx - 1 on usize.  lidx = 0 would underflow: a panic in a
\* debug build, a wrap to usize::MAX (and back to 0 at idx += 1) in a release
\* build; the wrapped value is kept as -1.
\* a BEnd arm that forgets the decrement compensating the increment of line 255
ComputeBEndPastMark(st) ==
    IF st.curr_loop # <<>> THEN [st EXCEPT !.idx = Last(st.curr_loop)] ELSE st
ComputeBEnd(st) ==
    IF st.curr_loop # <<>> THEN [st EXCEPT !.idx = Last(st.curr_loop) - 1] ELSE st

\* Op::Zaloop
\* a Zaloop arm with `if let Some(a) = stack.pop_back()` in place of unwrap: on
\* an empty operand stack it skips the normalisation and still records itself
ComputeZaloopLenient(st) ==
    LET s1 == IF st.stack = <<>> THEN st ELSE Normalize(st)
    IN  IF s1.curr_loop # <<>> /\ Last(s1.curr_loop) = s1.idx THEN s1
        ELSE [s1 EXCEPT !.curr_loop = Append(@, s1.idx)]

\* a Zaloop arm that records itself without looking at the top of curr_loop
ComputeZaloopAlwaysPushes(st) ==
    LET s1 == Normalize(st)
    IN  IF s1.panicked THEN s1 ELSE [s1 EXCEPT !.curr_loop = Append(@, s1.idx)]
ComputeZaloop(st) ==
    LET s1 == Normalize(st)
    IN  IF s1.panicked THEN s1
        ELSE IF s1.curr_loop # <<>> /\ Last(s1.curr_loop) = s1.idx THEN s1
             ELSE [s1 EXCEPT !.curr_loop = Append(@, s1.idx)]

\* the match of one loop iteration, without the trailing idx += 1
ComputeOp(st, op) ==
    CASE op.op = "Push" -> [st EXCEPT !.stack = Append(st.stack, op.a)]
      [] op.op = "Cond" -> Normalize(st)
      [] op.op = "BStart" -> ComputeBStart(st, op.a, op.b)
      [] op.op = "BElse" -> ComputeBElse(st, op.b)
      [] op.op = "BEnd" -> ComputeBEnd(st)
      [] op.op = "Zaloop" -> ComputeZaloop(st)
      [] op.op = "Int" /\ op.i \in BinaryIntrinsics -> ComputeBinary(st, op.i)
      [] op.op = "Int" /\ op.i = "Dup" -> ComputeDup(st)
      [] op.op = "Int" /\ op.i = "Drop" -> ComputeDrop(st)

\* one iteration of `while idx < ops.len()`
compute_step(ops, st) ==
    LET s1 == ComputeOp(st, At(ops, st.idx))
    IN  IF s1.panicked THEN s1 ELSE [s1 EXCEPT !.idx = s1.idx + 1]

----------------------------------------------------------------------------
(* The source texts the model runs: sequences of words joined by single     *)
(* spaces, and raw character strings for the lexer's whitespace handling.   *)

Join(ws) == IF ws = <<>> THEN <<>> ELSE Flatten([k \in 1..(2 * Len(ws) - 1) |->
                IF k % 2 = 1 THEN ws[(k + 1) \div 2] ELSE <<" ">>])

SeqsUpTo(S, n) == UNION {[1..k -> S] : k \in 0..n}

DigitChar(d) ==
    CASE d = 0 -> "0" [] d = 1 -> "1" [] d = 2 -> "2" [] d = 3 -> "3" [] d = 4 -> "4"
      [] d = 5 -> "5" [] d = 6 -> "6" [] d = 7 -> "7" [] d = 8 -> "8" [] d = 9 -> "9"

RECURSIVE DecimalText(_)
DecimalText(n) ==
    IF n < 10 THEN <<DigitChar(n)>> ELSE Append(DecimalText(n \div 10), DigitChar(n % 10))

\* the literal that denotes n
Lit(n) == IF n < 0 THEN <<"-">> \o DecimalText(-n) ELSE DecimalText(n)

\* every text of at most MaxChars characters over a small alphabet
CharAlphabet == {" ", "\n", "1", "-", "{", "}"}
CharTexts == SeqsUpTo(CharAlphabet, MaxChars)

\* every program of at most MaxToks words over the control words
CoreWords == {<<"0">>, <<"1">>, <<"{">>, <<"}", "{">>, <<"}">>, <<"@">>}
CorePrograms == {Join(ws) : ws \in SeqsUpTo(CoreWords, MaxToks)}

\* every sequence of at most MaxBraces block delimiters
BraceWords == {<<"{">>, <<"}", "{">>, <<"}">>}
BracePrograms == {Join(ws) : ws \in SeqsUpTo(BraceWords, MaxBraces)}

\* up to three literals of -MaxLit..MaxLit, one lexeme, and possibly one more push
LitWords == {Lit(n) : n \in (-MaxLit)..MaxLit}
ArithPrograms ==
    {Join(pre \o <<w>> \o post) :
        pre \in SeqsUpTo(LitWords, 3), w \in Lexemes, post \in {<<>>, <<Lit(7)>>}}

\* c { A }{ B } R and c { A } R with straight-line A and B of at most MaxBody words
CondWords == {Lit(0), Lit(1), Lit(-1)}
BodyWords == {Lit(2), Lit(3), <<":">>}
Bodies == SeqsUpTo(BodyWords, MaxBody)
Rests == {<<>>, <<Lit(7)>>}
IfElsePrograms ==
    {Join(<<c, <<"{">>>> \o A \o <<<<"}", "{">>>> \o B \o <<<<"}">>>> \o R) :
        c \in CondWords, A \in Bodies, B \in Bodies, R \in Rests}
IfPrograms ==
    {Join(<<c, <<"{">>>> \o A \o <<<<"}">>>> \o R) :
        c \in CondWords, A \in Bodies, R \in Rests}

\* c @ { A } R with a straight-line A of at most MaxBody + 1 words
LoopBodyWords == {Lit(0), Lit(1), <<":">>, <<";">>, <<"-">>}
LoopPrograms ==
    {Join(<<c, <<"@">>, <<"{">>>> \o A \o <<<<"}">>>> \o R) :
        c \in CondWords, A \in SeqsUpTo(LoopBodyWords, MaxBody + 1), R \in Rests}

\* programs with a block nested in a loop or in a conditional, a loop mark
\* inside a block body, two loop marks, or an unclosed block after a loop: a
\* skeleton whose condition holes are filled with 0 or 1
Hole == <<"c">>
HoleWords == {Lit(0), Lit(1)}
Skeletons ==
    { <<Hole, <<"@">>, <<"{">>, Hole, <<"{">>, <<"}">>, Hole, <<"}">>>>,
      <<Hole, <<"@">>, <<"{">>, Hole, <<"{">>, Hole, <<"}", "{">>, Hole, <<"}">>, Hole, <<"}">>>>,
      <<Hole, <<"@">>, <<"{">>, Hole, <<"@">>, <<"{">>, Hole, <<"}">>, Hole, <<"}">>>>,
      <<Hole, <<"{">>, Hole, <<"@">>, <<"}">>, Hole>>,
      <<Hole, <<"{">>, Hole, <<"@">>, Hole, <<"{">>, <<"}">>, <<"}">>, Hole>>,
      <<Hole, <<"{">>, Hole, <<"@">>, Hole, <<"{">>, <<"}">>, <<"}">>, Hole, <<"{">>>>,
      <<Hole, <<"@">>, Hole, <<"{">>, Hole, <<"@">>, Hole, <<"{">>, <<"}">>, <<"}">>>>,
      <<Hole, Hole, <<"@">>, <<"{">>, <<"}">>, Hole, <<"@">>, <<"{">>, Hole, <<"}">>>>,
      <<Hole, <<"@">>, Hole, <<"@">>, Hole, <<"{">>>>,
      <<Hole, Hole, Hole, <<"@">>, <<"{">>, <<"}">>, Hole>>,
      <<Hole, <<"{">>, Hole, <<"{">>, Hole, <<"}", "{">>, Hole, <<"}">>, <<"}", "{">>, Hole, <<"}">>>>,
      <<<<"@">>, Hole, <<"{">>, <<"}">>>> }
Fillings(sk) ==
    { [k \in 1..Len(sk) |-> IF sk[k] = Hole THEN f[k] ELSE sk[k]] :
        f \in [1..Len(sk) -> HoleWords] }
SkeletonPrograms == { Join(ws) : ws \in UNION { Fillings(sk) : sk \in Skeletons } }

\* the programs the specification quotes, one with irregular whitespace and one
\* with a digit that is not ASCII
Examples ==
    { Join(<<Lit(3), Lit(4), <<"+">>>>),
      Join(<<Lit(10), Lit(3), <<"-">>>>),
      Join(<<Lit(5), <<":">>>>),
      Join(<<Lit(5), <<";">>>>),
      Join(<<Lit(1), <<"{">>, Lit(99), <<"}", "{">>, Lit(88), <<"}">>>>),
      Join(<<Lit(0), <<"{">>, Lit(99), <<"}", "{">>, Lit(88), <<"}">>>>),
      Join(<<Lit(5), Lit(0), <<"/">>>>),
      Join(<<Lit(5), Lit(0), <<"%">>>>),
      Join(<<Lit(0), Lit(5), <<"/">>>>),
      <<" ", "1", " ", " ", "{", "\n", "9", "\t", "}", "{", " ", " ", "8", " ", "}">>,
      <<"1", " ", "-", "u0663", " ", "+">> }

Sources ==
    CharTexts \cup CorePrograms \cup BracePrograms \cup ArithPrograms
        \cup IfElsePrograms \cup IfPrograms \cup LoopPrograms \cup SkeletonPrograms
        \cup Examples

----------------------------------------------------------------------------
(* main *)

Init ==
    /\ input \in Sources
    /\ pc = "lex"
    /\ tokens = <<>>
    /\ tpos = 1
    /\ res = <<>>
    /\ pidx = 0
    /\ pstack = <<>>
    /\ stack = <<>>
    /\ idx = 0
    /\ curr_loop = <<>>
    /\ executed = <<>>

\* let res = lex(&content)
Lex ==
    /\ pc = "lex"
    /\ LET s1 == lex(input)
       IN  IF s1.panicked
           THEN pc' = "lex_panic" /\ tokens' = tokens
           ELSE pc' = "parse" /\ tokens' = s1.res
    /\ UNCHANGED <<input, tpos, res, pidx, pstack, stack, idx, curr_loop, executed>>

\* one token of parse's for loop
ParseToken ==
    /\ pc = "parse"
    /\ tpos <= Len(tokens)
    /\ LET s1 == parse_token([res |-> res, idx |-> pidx, stack |-> pstack,
                              panicked |-> FALSE], tokens[tpos])
       IN  IF s1.panicked
           THEN /\ pc' = "parse_panic"
                /\ UNCHANGED <<tpos, res, pidx, pstack>>
           ELSE /\ pc' = pc
                /\ tpos' = tpos + 1
                /\ res' = s1.res
                /\ pidx' = s1.idx
                /\ pstack' = s1.stack
    /\ UNCHANGED <<input, tokens, stack, idx, curr_loop, executed>>

\* parse returns res; main hands it to compute
ParseReturn ==
    /\ pc = "parse"
    /\ tpos > Len(tokens)
    /\ pc' = "compute"
    /\ UNCHANGED <<input, tokens, tpos, res, pidx, pstack, stack, idx, curr_loop, executed>>

\* one instruction of compute's while loop
ComputeStep ==
    /\ pc = "compute"
    /\ idx < Len(res)
    /\ Len(executed) < MaxSteps
    /\ LET s1 == compute_step(res, [stack |-> stack, idx |-> idx,
                                    curr_loop |-> curr_loop, panicked |-> FALSE])
       IN  /\ executed' = Append(executed, idx)
           /\ IF s1.panicked
              THEN /\ pc' = "compute_panic"
                   /\ UNCHANGED <<stack, idx, curr_loop>>
              ELSE /\ pc' = pc
                   /\ stack' = s1.stack
                   /\ idx' = s1.idx
                   /\ curr_loop' = s1.curr_loop
    /\ UNCHANGED <<input, tokens, tpos, res, pidx, pstack>>

\* Ok(stack)
ComputeReturn ==
    /\ pc = "compute"
    /\ idx >= Len(res)
    /\ pc' = "returned"
    /\ UNCHANGED <<input, tokens, tpos, res, pidx, pstack, stack, idx, curr_loop, executed>>

Next == Lex \/ ParseToken \/ ParseReturn \/ ComputeStep \/ ComputeReturn

Spec == Init /\ [][Next]_vars

----------------------------------------------------------------------------
(* Vocabulary of the properties *)

\* compute is about to execute the instruction at idx
AtInstruction == pc = "compute" /\ idx < Len(res)
CurOp == At(res, idx)
AtBinary == AtInstruction /\ CurOp.op = "Int" /\ CurOp.i \in BinaryIntrinsics
AtIntrinsic(i) == AtInstruction /\ CurOp.op = "Int" /\ CurOp.i = i

\* the two operands of a binary intrinsic, named as the specification names them
First == stack[Len(stack)]
Second == stack[Len(stack) - 1]
BelowTwo == SubSeq(stack, 1, Len(stack) - 2)

\* `second <op> first`, division truncating as i64 division does
SecondOpFirst(i, second, first) ==
    CASE i = "Add" -> second + first
      [] i = "Sub" -> second - first
      [] i = "Mult" -> second * first
      [] i = "Div" -> TruncDiv(second, first)
      [] i = "Mod" -> TruncRem(second, first)
      [] i = "LT" -> Bool(second < first)
      [] i = "GT" -> Bool(second > first)
      [] i = "LE" -> Bool(second <= first)
      [] i = "GE" -> Bool(second >= first)
      [] i = "EQ" -> Bool(second = first)
      [] i = "NE" -> Bool(second # first)

\* the operands an operation pops or reads
Needs(op) ==
    CASE op.op = "Int" /\ op.i \in BinaryIntrinsics -> 2
      [] op.op = "Int" /\ op.i \in {"Dup", "Drop"} -> 1
      [] op.op \in {"Cond", "Zaloop", "BStart"} -> 1
      [] OTHER -> 0

----------------------------------------------------------------------------
(* C1: every binary intrinsic executed on a stack of at least two values    *)
(* replaces the top two values, first (top) and second (below it), by       *)
(* `second <op> first`; where the claim's own division is undefined         *)
(* (first = 0) it says nothing.                                             *)
C1_BinaryIsSecondOpFirst ==
    [][ (/\ AtBinary
         /\ Len(stack) >= 2
         /\ (CurOp.i \in {"Div", "Mod"} => First # 0))
        => /\ pc' = "compute"
           /\ stack' = Append(BelowTwo, SecondOpFirst(CurOp.i, Second, First)) ]_vars

----------------------------------------------------------------------------
(* C7: an operation that needs more operands than the operand stack holds   *)
(* ends compute in a panic: the failing instruction is the last one         *)
(* executed, nothing follows a panic, and no stack is returned.             *)
C7_UnderflowIsFatal ==
    [][ /\ (AtInstruction /\ Len(stack) < Needs(CurOp)) => pc' = "compute_panic"
        /\ pc # "compute_panic" ]_vars

\* `2 +` followed by a push: the push is never executed
C7_Witness ==
    /\ pc = "compute_panic"
    /\ Len(stack) = 1
    /\ At(res, Last(executed)).op = "Int"
    /\ At(res, Last(executed)).i \in BinaryIntrinsics
    /\ Last(executed) + 1 < Len(res)

----------------------------------------------------------------------------
(* C8: executing / or % on at least two values is fatal exactly when the    *)
(* most recently pushed value (first, the top) is zero.                     *)
C8_FatalIffTopIsZero ==
    [][ (AtInstruction /\ (AtIntrinsic("Div") \/ AtIntrinsic("Mod")) /\ Len(stack) >= 2)
        => ((pc' = "compute_panic") <=> (First = 0)) ]_vars

----------------------------------------------------------------------------
(* C9: on a non-empty operand stack Dup appends a copy of the top value and *)
(* Drop removes the top value; neither changes the values below the top nor *)
(* the loop-marker stack, and the instruction pointer advances by one;      *)
(* `5 :` returns [5, 5] and `5 ;` returns [].                               *)
C9_DupDropStep ==
    /\ (AtIntrinsic("Dup") /\ stack # <<>>) =>
          (/\ stack' = Append(stack, Last(stack))
           /\ curr_loop' = curr_loop /\ idx' = idx + 1 /\ pc' = "compute")
    /\ (AtIntrinsic("Drop") /\ stack # <<>>) =>
          (/\ stack' = Front(stack)
           /\ curr_loop' = curr_loop /\ idx' = idx + 1 /\ pc' = "compute")

\* C9: every step obeys the frame above, and the two quoted programs return
\* [5, 5] and []
C9_DupDropFrame ==
    /\ [][C9_DupDropStep]_vars
    /\ []((pc = "returned" /\ input = Join(<<Lit(5), <<":">>>>)) => stack = <<5, 5>>)
    /\ []((pc = "returned" /\ input = Join(<<Lit(5), <<";">>>>)) => stack = <<>>)

\* inside an active loop a Dup, then a Drop that left a value below it
C9_Witness ==
    /\ pc = "compute"
    /\ curr_loop # <<>>
    /\ stack # <<>>
    /\ executed # <<>>
    /\ At(res, Last(executed)) = OpInt("Drop")
    /\ Last(executed) > Last(curr_loop)
    /\ \E j \in 1..Len(executed) :
          At(res, executed[j]) = OpInt("Dup") /\ executed[j] > Last(curr_loop)

----------------------------------------------------------------------------
(* Block structure, read off the tokens lex produced.  The tokens that      *)
(* emit an operation are the non-empty ones; the k-th of them (1-based) is  *)
(* instruction k - 1.  Blocks are matched by counting delimiters, without   *)
(* looking at the indices parse stored.  ws is always Words.                *)

EmitsOp(t) == ~(t.kind = "Word" /\ t.text = <<>>)
Words == SelectSeq(tokens, EmitsOp)
IsWord(t, w) == t.kind = "Word" /\ t.text = w
IsOpen(ws, k) == IsWord(ws[k], <<"{">>)
IsElse(ws, k) == IsWord(ws[k], <<"}", "{">>)
IsClose(ws, k) == IsWord(ws[k], <<"}">>)

\* nesting depth after word k
Depth(ws, k) ==
    Cardinality({j \in 1..k : IsOpen(ws, j)}) - Cardinality({j \in 1..k : IsClose(ws, j)})

\* the `}` positions that close the `{` at s, and the first of them
ClosersOf(ws, s) ==
    LET d == Depth(ws, s)
    IN  {e \in (s + 1)..Len(ws) : IsClose(ws, e) /\ Depth(ws, e) = d - 1}
HasClose(ws, s) == ClosersOf(ws, s) # {}
CloseOf(ws, s) ==
    LET cs == ClosersOf(ws, s) IN CHOOSE e \in cs : \A f \in cs : e <= f

\* the `}{` of the block that opens at s
ElsesOf(ws, s) ==
    LET d == Depth(ws, s)
    IN  {m \in (s + 1)..(CloseOf(ws, s) - 1) : IsElse(ws, m) /\ Depth(ws, m) = d}
ElseOf(ws, s) == CHOOSE m \in ElsesOf(ws, s) : TRUE

\* a well-formed block opens at word s: it is closed and has at most one `}{`
WellFormedBlock(ws, s) ==
    /\ s \in 1..Len(ws)
    /\ IsOpen(ws, s)
    /\ HasClose(ws, s)
    /\ Cardinality(ElsesOf(ws, s)) <= 1

\* a straight-line word: a number or one of the words that neither opens, splits
\* or closes a block nor marks a loop
StraightLine(ws, k) ==
    \/ ws[k].kind = "Number"
    \/ ws[k].text \in (Lexemes \ {<<"{">>, <<"}", "{">>, <<"}">>, <<"@">>})

ParseCompleted == pc \in {"compute", "returned", "compute_panic"}

----------------------------------------------------------------------------
(* C3 as stated: for every well-formed block of parse's output the          *)
(* BlockStart's else-index is the position of its BlockElse, or of its      *)
(* BlockEnd if there is no else; the end-indices of BlockStart and          *)
(* BlockElse are the position of the BlockEnd; the BlockEnd refers back to  *)
(* the BlockElse, or to the BlockStart if there is no else.                 *)
C3_ElseIndexIsEndWithoutElse ==
    ParseCompleted =>
        LET ws == Words IN
        \A s \in 1..Len(ws) : WellFormedBlock(ws, s) =>
            LET e == CloseOf(ws, s) IN
            IF ElsesOf(ws, s) = {}
            THEN res[s] = BStart(e - 1, e - 1) /\ res[e] = BEnd(s - 1)
            ELSE LET m == ElseOf(ws, s) IN
                 /\ res[s] = BStart(m - 1, e - 1)
                 /\ res[m] = BElse(s - 1, e - 1)
                 /\ res[e] = BEnd(m - 1)

(* C3 as amended: the same, except that a BlockStart without else holds its *)
(* own position as else-index.                                              *)
C3_BlockIndicesConsistent ==
    ParseCompleted =>
        LET ws == Words IN
        \A s \in 1..Len(ws) : WellFormedBlock(ws, s) =>
            LET e == CloseOf(ws, s) IN
            IF ElsesOf(ws, s) = {}
            THEN res[s] = BStart(s - 1, e - 1) /\ res[e] = BEnd(s - 1)
            ELSE LET m == ElseOf(ws, s) IN
                 /\ res[s] = BStart(m - 1, e - 1)
                 /\ res[m] = BElse(s - 1, e - 1)
                 /\ res[e] = BEnd(m - 1)

\* a block with else and a block without, both nested in a third
C3_Witness ==
    /\ ParseCompleted
    /\ LET ws == Words IN
       \E s, t, u \in 1..Len(ws) :
          /\ s < t /\ t < u
          /\ WellFormedBlock(ws, s) /\ WellFormedBlock(ws, t) /\ WellFormedBlock(ws, u)
          /\ ElsesOf(ws, t) # {} /\ ElsesOf(ws, u) = {}
          /\ CloseOf(ws, t) < u /\ CloseOf(ws, u) < CloseOf(ws, s)

----------------------------------------------------------------------------
(* C4: parse fails on a token exactly when the token is `}` or `}{` and the *)
(* pending-block stack is empty, or is a non-empty word that is none of the *)
(* 18 lexemes; after a failure nothing more happens and no instruction is   *)
(* executed.                                                                *)
C4_ParseFailsExactlyOn ==
    [][ /\ (pc = "parse" /\ tpos <= Len(tokens)) =>
              LET t == tokens[tpos] IN
              (pc' = "parse_panic") <=>
                  /\ t.kind = "Word" /\ t.text # <<>>
                  /\ \/ t.text \notin Lexemes
                     \/ t.text \in {<<"}">>, <<"}", "{">>} /\ pstack = <<>>
        /\ pc # "parse_panic"
        /\ Cardinality(Lexemes) = 18 ]_vars

\* a `}` met after the only open block was closed
C4_Witness ==
    /\ pc = "parse_panic"
    /\ tokens[tpos].text = <<"}">>
    /\ pstack = <<>>
    /\ res # <<>> /\ Last(res).op = "BEnd"
    /\ executed = <<>>

----------------------------------------------------------------------------
(* C5: when parse completes without failing, no BlockStart or BlockElse     *)
(* holds a placeholder (an end-index of 0, which no closed block has) and   *)
(* the pending-block stack is empty.                                        *)
C5_CompletedParseIsResolved ==
    ParseCompleted =>
        /\ pstack = <<>>
        /\ \A k \in 1..Len(res) : res[k].op \in {"BStart", "BElse"} => res[k].b # 0

----------------------------------------------------------------------------
(* Maximal runs of non-whitespace characters of the source text *)

RunStarts ==
    {i \in 1..Len(input) :
        ~IsWhitespace(input[i]) /\ (i = 1 \/ IsWhitespace(input[i - 1]))}
RunEnd(i) ==
    CHOOSE j \in i..Len(input) :
        /\ \A k \in i..j : ~IsWhitespace(input[k])
        /\ j = Len(input) \/ IsWhitespace(input[j + 1])
\* the n-th run, in text order; starts is always RunStarts
NthRunStart(starts, n) == CHOOSE i \in starts : Cardinality({j \in starts : j < i}) = n - 1
NthRun(starts, n) ==
    LET i == NthRunStart(starts, n) IN SubSeq(input, i, RunEnd(i))

\* whitespace characters that do not end a run
IdleWhitespace ==
    {i \in 1..Len(input) :
        IsWhitespace(input[i]) /\ (i = 1 \/ IsWhitespace(input[i - 1]))}

EmptyTokens == {k \in 1..Len(tokens) : ~EmitsOp(tokens[k])}

\* lex has just returned; no later step changes input or tokens
Lexed == pc = "parse" /\ tpos = 1

----------------------------------------------------------------------------
----------------------------------------------------------------------------
(* C2: a program `c { A }{ B } R` with straight-line A, B and R executes    *)
(* c, the block head, then A and the else head when c is non-zero, B and    *)
(* the block terminator when c is zero, and then R, the instructions after  *)
(* the terminator; nothing else.  The two programs the specification quotes *)
(* return [99] and [88].                                                    *)

Range(a, b) == [k \in 1..(b - a + 1) |-> a + k - 1]
IsPrefix(p, q) == Len(p) <= Len(q) /\ p = SubSeq(q, 1, Len(p))

\* the program is c { A }{ B } R, with A, B and R straight-line
IfElseShape(ws) ==
    /\ Len(ws) >= 4
    /\ ws[1].kind = "Number"
    /\ WellFormedBlock(ws, 2)
    /\ LET delimiters == ElsesOf(ws, 2) \cup {CloseOf(ws, 2)}
       IN  /\ Cardinality(delimiters) = 2
           /\ \A k \in 3..Len(ws) : k \notin delimiters => StraightLine(ws, k)

\* the instruction pointers of the run the claim describes
IfElseExpected(ws) ==
    LET m == ElseOf(ws, 2)
        e == CloseOf(ws, 2)
    IN  IF ws[1].value # 0
        THEN <<0, 1>> \o Range(2, m - 2) \o <<m - 1>> \o Range(e, Len(ws) - 1)
        ELSE <<0, 1>> \o Range(m, e - 2) \o <<e - 1>> \o Range(e, Len(ws) - 1)

\* C2: the run of c { A }{ B } R is a prefix of the expected one, and equal to it
\* when compute returns; the quoted programs return [99] and [88]
C2_IfElseRunsOneBranch ==
    /\ ParseCompleted =>
          LET ws == Words IN
          IfElseShape(ws) =>
              LET expected == IfElseExpected(ws) IN
              /\ IsPrefix(executed, expected)
              /\ pc = "returned" => executed = expected
    /\ (pc = "returned"
          /\ input = Join(<<Lit(1), <<"{">>, Lit(99), <<"}", "{">>, Lit(88), <<"}">>>>))
          => stack = <<99>>
    /\ (pc = "returned"
          /\ input = Join(<<Lit(0), <<"{">>, Lit(99), <<"}", "{">>, Lit(88), <<"}">>>>))
          => stack = <<88>>

\* a completed run with a non-zero c, non-empty A and B, and a non-empty R
C2_Witness ==
    /\ pc = "returned"
    /\ LET ws == Words IN
       /\ IfElseShape(ws)
       /\ ws[1].value # 0
       /\ ElseOf(ws, 2) > 3
       /\ CloseOf(ws, 2) > ElseOf(ws, 2) + 1
       /\ Len(ws) > CloseOf(ws, 2)

----------------------------------------------------------------------------
(* C10: when the BlockStart of a well-formed block without else pops a      *)
(* zero, the next instruction is the one after the matching BlockEnd (the   *)
(* end of the program if the BlockEnd is last): neither the body nor the    *)
(* BlockEnd is executed.                                                    *)
C10_ZeroSkipsPastBlockEnd ==
    [][ (AtInstruction /\ CurOp.op = "BStart" /\ stack # <<>> /\ Last(stack) = 0) =>
          LET ws == Words IN
          (WellFormedBlock(ws, idx + 1) /\ ElsesOf(ws, idx + 1) = {})
              => (pc' = "compute" /\ idx' = CloseOf(ws, idx + 1)) ]_vars

\* after a loop marker, a non-empty body was skipped and the instruction after
\* its BlockEnd executed
C10_Witness ==
    /\ pc = "compute"
    /\ LET ws == Words IN
       \E k \in 1..(Len(executed) - 1) :
          LET s == executed[k] + 1 IN
          /\ WellFormedBlock(ws, s)
          /\ ElsesOf(ws, s) = {}
          /\ CloseOf(ws, s) > s + 1
          /\ executed[k + 1] = CloseOf(ws, s)
          /\ \E j \in 1..(k - 1) : At(res, executed[j]).op = "Zaloop"

----------------------------------------------------------------------------
(* Loops: Zaloop, BStart and BEnd against curr_loop *)

IsLoopMark(ws, k) == IsWord(ws[k], <<"@">>)
\* the executed instruction pointers as positions of Words (1-based)
ExecutedAt(k) == executed[k] + 1

\* one step of compute from a BEnd
C11_BlockEndStep ==
    (AtInstruction /\ CurOp.op = "BEnd") =>
        /\ pc' = "compute"
        /\ stack' = stack
        /\ curr_loop' = curr_loop
        /\ IF curr_loop # <<>>
           THEN /\ idx' = Last(curr_loop)
                /\ idx' < Len(res)
                /\ At(res, idx').op = "Zaloop"
           ELSE idx' = idx + 1

\* C11: a BEnd executed with curr_loop non-empty is followed by the Zaloop at
\* the index on top of curr_loop, whichever block the BEnd closes; with
\* curr_loop empty it is followed by the next instruction; the BEnd leaves
\* stack and curr_loop as they are.
C11_BlockEndGoesToMark == [][C11_BlockEndStep]_vars

\* the BEnd of a conditional nested in a loop body was executed and was followed
\* by the loop's Zaloop, which is not the word before that conditional's head
C11_Witness ==
    /\ pc = "compute"
    /\ curr_loop # <<>>
    /\ \E k \in 1..(Len(executed) - 1) :
          LET e == At(res, executed[k])
          IN  /\ e.op = "BEnd"
              /\ At(res, e.a).op = "BStart"
              /\ executed[k + 1] = Last(curr_loop)
              /\ executed[k + 1] < e.a - 1
              /\ At(res, executed[k + 1]).op = "Zaloop"

\* how many times the instruction at index m has been executed
TimesExecuted(m) == Cardinality({k \in 1..Len(executed) : executed[k] = m})

\* one step of compute from a Zaloop that finds a value to normalise
C12_LoopMarkStep ==
    (AtInstruction /\ CurOp.op = "Zaloop" /\ stack # <<>>) =>
        /\ pc' = "compute"
        /\ idx' = idx + 1
        /\ curr_loop' = IF curr_loop # <<>> /\ Last(curr_loop) = idx
                        THEN curr_loop
                        ELSE Append(curr_loop, idx)

NoAdjacentMarks ==
    \A k \in 1..(Len(curr_loop) - 1) : curr_loop[k] # curr_loop[k + 1]

\* C12: Zaloop pushes idx onto curr_loop unless the top of curr_loop already
\* equals idx; curr_loop never holds the same index in two adjacent positions,
\* and re-entering the same Zaloop leaves curr_loop unchanged.
C12_LoopMarkPushesOnce == [][C12_LoopMarkStep]_vars /\ []NoAdjacentMarks

\* the same Zaloop has been executed three times and curr_loop holds it once
C12_Witness ==
    /\ pc = "compute"
    /\ curr_loop # <<>>
    /\ LET m == Last(curr_loop)
       IN  /\ At(res, m).op = "Zaloop"
           /\ TimesExecuted(m) >= 3
           /\ Cardinality({k \in 1..Len(curr_loop) : curr_loop[k] = m}) = 1

\* the block that opens at word s is a plain conditional: it is well formed,
\* no `@` stands before its head and none lies between its head and its `}`
PlainConditional(ws, s) ==
    /\ WellFormedBlock(ws, s)
    /\ s = 1 \/ ~IsLoopMark(ws, s - 1)
    /\ \A k \in (s + 1)..CloseOf(ws, s) : ~IsLoopMark(ws, k)

\* one step of compute seen from curr_loop
C13_LoopStackStep ==
    LET ws == Words
    IN  (AtInstruction /\ pc' = "compute") =>
            /\ CurOp.op \in {"Push", "Cond", "Int", "BElse", "BEnd"}
                  => curr_loop' = curr_loop
            /\ (CurOp.op = "BStart" /\ curr_loop # <<>> /\ PlainConditional(ws, idx + 1))
                  => curr_loop' = curr_loop

\* C13: curr_loop is changed only by Zaloop and by the pop at a loop's false
\* condition: the BStart of a plain conditional without `@` of its own,
\* executed inside an active loop, leaves curr_loop unchanged whatever the
\* condition is, and Push, Cond, intrinsics, BElse and BEnd never change it.
C13_OnlyLoopsTouchLoopStack == [][C13_LoopStackStep]_vars

\* a loop written `@ { B }` opens at word s: the word before the head is `@`
\* and the body holds no block and no `@`
SimpleLoop(ws, s) ==
    /\ WellFormedBlock(ws, s)
    /\ s >= 2
    /\ IsLoopMark(ws, s - 1)
    /\ \A k \in (s + 1)..(CloseOf(ws, s) - 1) : StraightLine(ws, k)
SimpleLoops(ws) == {s \in 1..Len(ws) : SimpleLoop(ws, s)}

\* one step of compute through a simple loop whose head is word s, that is
\* Zaloop at index s - 2, BStart at s - 1 and BEnd at CloseOf(ws, s) - 1
C14_SimpleLoopStep ==
    LET ws == Words
    IN  (AtInstruction /\ pc' = "compute") =>
            \A s \in SimpleLoops(ws) :
                LET mark == s - 2
                    head == s - 1
                    end  == CloseOf(ws, s) - 1
                IN  /\ idx = end =>
                          idx' = mark /\ curr_loop' = curr_loop
                    /\ idx = mark =>
                          idx' = head /\ Last(curr_loop') = mark
                    /\ idx = head =>
                          /\ Last(curr_loop) = mark
                          /\ IF Last(stack) # 0
                             THEN idx' = head + 1 /\ curr_loop' = curr_loop
                             ELSE idx' = end + 1 /\ curr_loop' = Front(curr_loop)
                    /\ (idx > head /\ idx < end) =>
                          idx' = idx + 1 /\ curr_loop' = curr_loop

\* the marker of a simple loop is on curr_loop only while control is inside the
\* loop, and then once and on top: what lies below it is what curr_loop held
\* before the loop was entered
C14_MarkOnlyInside ==
    LET ws == Words
    IN  ParseCompleted =>
            \A s \in SimpleLoops(ws) :
                LET mark == s - 2
                    at == {k \in 1..Len(curr_loop) : curr_loop[k] = mark}
                IN  at # {} =>
                        /\ at = {Len(curr_loop)}
                        /\ idx >= mark
                        /\ idx <= CloseOf(ws, s) - 1

\* C14: in a loop `@ { B }` with straight-line B every BEnd is followed by the
\* Zaloop and then the BStart; B is repeated while BStart pops a non-zero value,
\* and at the first zero control continues after the BEnd with this loop's
\* marker removed, so curr_loop is what it was before the loop was entered.
C14_SimpleLoopRepeats == [][C14_SimpleLoopStep]_vars /\ []C14_MarkOnlyInside

\* a simple loop has run its BEnd twice and has just been left on a zero
C14_Witness ==
    LET ws == Words
    IN  /\ pc = "compute"
        /\ curr_loop = <<>>
        /\ \E s \in SimpleLoops(ws) :
              /\ idx = CloseOf(ws, s)
              /\ TimesExecuted(CloseOf(ws, s) - 1) >= 2
              /\ Last(executed) = s - 1

\* the block that opens at word s has an `@` inside its body and is not
\* enclosed in another loop: it is a top-level block and no `@` stands before it
MarkInsideBody(ws, s) ==
    /\ WellFormedBlock(ws, s)
    /\ Depth(ws, s) = 1
    /\ \A k \in 1..(s - 1) : ~IsLoopMark(ws, k)
    /\ \E k \in (s + 1)..(CloseOf(ws, s) - 1) : IsLoopMark(ws, k)

\* C15: the BStart of a block whose `@` lies inside its body, and which is not
\* enclosed in another loop, is executed at most once during a run: no BEnd
\* returns control to the block head.
C15_HeadRunsAtMostOnce ==
    LET ws == Words
    IN  ParseCompleted =>
            \A s \in 1..Len(ws) : MarkInsideBody(ws, s) => TimesExecuted(s - 1) <= 1

----------------------------------------------------------------------------
(* parse: the pending-block stack and the emit counter *)

\* the words parse has processed so far
ParsedWords == SelectSeq(SubSeq(tokens, 1, tpos - 1), EmitsOp)

\* a word sequence with well-formed blocks: no `}` or `}{` without an open
\* block, every `{` closed, at most one `}{` per block
WellFormedProgram(ws) ==
    /\ \A k \in 1..Len(ws) :
          /\ Depth(ws, k) >= 0
          /\ IsElse(ws, k) => Depth(ws, k) >= 1
          /\ IsOpen(ws, k) => WellFormedBlock(ws, k)
    /\ Depth(ws, Len(ws)) = 0

\* C16: while parse processes a token sequence with well-formed blocks, the
\* depth of the pending-block stack is the number of blocks open so far, each
\* entry is the position of a BStart or BElse already emitted, and the stack is
\* empty when parse finishes.
C16_PendingStackIsOpenBlocks ==
    LET ws == Words
    IN  (pc \in {"parse", "compute"} /\ WellFormedProgram(ws)) =>
            LET pw == ParsedWords
            IN  /\ Len(pstack) = Depth(pw, Len(pw))
                /\ \A k \in 1..Len(pstack) :
                      /\ pstack[k] < Len(res)
                      /\ At(res, pstack[k]).op \in {"BStart", "BElse"}
                /\ (tpos > Len(tokens)) => pstack = <<>>

\* parse is inside two open blocks of a well-formed program, the inner one past
\* its `}{`
C16_Witness ==
    /\ pc = "parse"
    /\ WellFormedProgram(Words)
    /\ Len(pstack) = 2
    /\ At(res, pstack[1]).op = "BStart"
    /\ At(res, pstack[2]).op = "BElse"

----------------------------------------------------------------------------
(* compute on programs without `@` *)

NoLoopMark(ws) == \A k \in 1..Len(ws) : ~IsLoopMark(ws, k)
StrictlyIncreasing(s) == \A k \in 1..(Len(s) - 1) : s[k] < s[k + 1]

\* C17: on a program with well-formed blocks and no `@`, compute terminates:
\* curr_loop stays empty, idx strictly increases at every step, and compute ends
\* with a result or a fatal error after at most Len(res) executed instructions.
C17_NoLoopMarkTerminates ==
    LET ws == Words
    IN  (ParseCompleted /\ WellFormedProgram(ws) /\ NoLoopMark(ws)) =>
            /\ curr_loop = <<>>
            /\ StrictlyIncreasing(executed)
            /\ (pc = "compute" /\ executed # <<>>) => idx > Last(executed)
            /\ Len(executed) <= Len(res)
            /\ idx <= Len(res)
            /\ Len(executed) < MaxSteps

\* compute has returned from a program with nested well-formed blocks and no
\* `@`, having jumped over part of it
C17_Witness ==
    LET ws == Words
    IN  /\ pc = "returned"
        /\ WellFormedProgram(ws)
        /\ NoLoopMark(ws)
        /\ \E k \in 1..Len(ws) : IsOpen(ws, k) /\ Depth(ws, k) = 2
        /\ \E k \in 1..Len(ws) : IsElse(ws, k)
        /\ executed # <<>>
        /\ Len(executed) < Len(res)

----------------------------------------------------------------------------
(* compute: the range of curr_loop and idx *)

\* C18: in every reachable state of compute, on any output of parse, each entry
\* of curr_loop is the index of a Zaloop and is at least 1 (a Zaloop at index 0
\* fails on the empty operand stack before recording itself), so the `lidx - 1`
\* of BEnd is never below 0 and idx stays within 0..Len(res).
C18_MarksAreLoopMarks ==
    ParseCompleted =>
        /\ \A k \in 1..Len(curr_loop) :
              /\ curr_loop[k] >= 1
              /\ curr_loop[k] < Len(res)
              /\ At(res, curr_loop[k]).op = "Zaloop"
        /\ idx \in 0..Len(res)

\* a BEnd has just jumped back with two markers on curr_loop
C18_Witness ==
    /\ pc = "compute"
    /\ Len(curr_loop) = 2
    /\ executed # <<>>
    /\ At(res, Last(executed)).op = "BEnd"
    /\ idx = Last(curr_loop)
    /\ idx < Last(executed)

----------------------------------------------------------------------------
(* parse: one operation per non-empty token *)

\* the operation at position k of res is the one emitted for word w: a number
\* gives its Push, a word the operation ops maps it to; the BElse of a `}{` is
\* rewritten as a BStart when a second `}{` follows in the same block
EmittedFor(o, w) ==
    IF w.kind = "Number" THEN o = Push(w.value)
    ELSE /\ w.text \in Lexemes
         /\ \/ o.op = OpsGet(w.text).op /\ o.i = OpsGet(w.text).i
            \/ w.text = <<"}", "{">> /\ o.op = "BStart"

\* one iteration of parse that does not fail
C19_ParseTokenStep ==
    (pc = "parse" /\ pc' = "parse" /\ tpos' = tpos + 1) =>
        IF EmitsOp(tokens[tpos])
        THEN /\ Len(res') = Len(res) + 1
             /\ pidx' = pidx + 1
             /\ EmittedFor(Last(res'), tokens[tpos])
        ELSE res' = res /\ pidx' = pidx

C19_OneOpPerWord ==
    (pc \in {"parse", "parse_panic"} \/ ParseCompleted) =>
        LET pw == ParsedWords
        IN  /\ pidx = Len(res)
            /\ Len(res) = Len(pw)
            /\ \A k \in 1..Len(pw) : EmittedFor(res[k], pw[k])

\* C19: parse emits exactly one operation per non-empty token, in token order,
\* and none for an empty Word token: after each token the emit counter idx
\* equals the length of the output, and each `}` appends exactly one BEnd.
C19_EmitCounterIsLength == [][C19_ParseTokenStep]_vars /\ []C19_OneOpPerWord

\* parse has finished a text with irregular whitespace that holds a block with
\* an else: there are empty tokens, and one operation per non-empty token
C19_Witness ==
    /\ pc = "compute"
    /\ EmptyTokens # {}
    /\ Len(res) = Len(tokens) - Cardinality(EmptyTokens)
    /\ \E k \in 1..Len(res) : res[k].op = "BElse"
    /\ Last(res).op = "BEnd"

=============================================================================
